---- MODULE Spec2Model ----
(***************************************************************************)
(* Model of behavior_mapper: the activities table class                    *)
(* (activities_class.py) and the embedding / clustering stages             *)
(* (modeling.py).  Strings are sequences of one-character strings so that  *)
(* substring search, regular-expression search, joining and tokenizing     *)
(* are computed rather than assumed.                                       *)
(***************************************************************************)
EXTENDS Integers, Sequences, FiniteSets, TLC

(* ---------------------------- bounds ----------------------------------- *)
MaxRows == 3
MaxMinNum == 2
MaxMinCount == 2

(* --------------------------- input domains ----------------------------- *)
IDs == {1, 2}
Occurrences == {1, 2}
Labels == { <<"a", "b">>, <<"b", ".">> }
None == [kind |-> "None"]
DropChoices ==
    { None,
      [kind |-> "str",  val |-> <<"a", "b">>],
      [kind |-> "list", val |-> << <<"a", ".">> >>],
      [kind |-> "list", val |-> << <<"a", "b">>, <<"b", ".">> >>] }
RowValues == [ID : IDs, activity : Labels, occurrence : Occurrences]
Tables == UNION { [1..n -> RowValues] : n \in 1..MaxRows }

(* --------------------------- string helpers ---------------------------- *)
RECURSIVE Join(_, _)
Join(parts, sep) ==
    IF Len(parts) = 0 THEN <<>>
    ELSE IF Len(parts) = 1 THEN parts[1]
    ELSE parts[1] \o <<sep>> \o Join(Tail(parts), sep)

RECURSIVE SplitOn(_, _)
SplitOn(s, sep) ==
    IF \A i \in 1..Len(s) : s[i] # sep THEN <<s>>
    ELSE LET k == CHOOSE i \in 1..Len(s) :
                      s[i] = sep /\ \A j \in 1..(i-1) : s[j] # sep
         IN  <<SubSeq(s, 1, k-1)>> \o SplitOn(SubSeq(s, k+1, Len(s)), sep)

NonEmptyStr(s) == Len(s) > 0
Tokenize(s) == SelectSeq(SplitOn(s, " "), NonEmptyStr)

Digit == <<"0", "1", "2", "3", "4", "5", "6", "7", "8", "9">>
RECURSIVE Str(_)
Str(i) == IF i < 10 THEN <<Digit[i+1]>>
          ELSE Str(i \div 10) \o <<Digit[(i % 10) + 1]>>

DigitVal(c) == (CHOOSE d \in 1..10 : Digit[d] = c) - 1
IsDigits(s) == Len(s) > 0 /\ \A i \in 1..Len(s) : \E d \in 1..10 : Digit[d] = s[i]
RECURSIVE int(_)
int(s) == IF Len(s) = 1 THEN DigitVal(s[1])
          ELSE 10 * int(SubSeq(s, 1, Len(s)-1)) + DigitVal(s[Len(s)])

(* Regular-expression search as Series.str.contains(regex=True) does it:   *)
(* "|" separates alternatives, "." matches any one character, every other  *)
(* character of the modelled alphabet matches itself.                      *)
ReMatchesAt(s, alt, i) ==
    \A j \in 1..Len(alt) : alt[j] = "." \/ s[i + j - 1] = alt[j]
ReSearch(s, regex) ==
    LET alts == SplitOn(regex, "|")
    IN  \E a \in 1..Len(alts) :
            \E i \in 1..(Len(s) - Len(alts[a]) + 1) : ReMatchesAt(s, alts[a], i)

(* ----------------------------- state ----------------------------------- *)
VARIABLES pc, raised, self, drop_activities, activities_df, activity_map,
          activity_counts, min_num, remove_repeats, sequence_df,
          w2v_dict, activities_features, activity_cluster_df

vars == <<pc, raised, self, drop_activities, activities_df, activity_map,
          activity_counts, min_num, remove_repeats, sequence_df,
          w2v_dict, activities_features, activity_cluster_df>>

corpus_vars == <<self, drop_activities, activities_df, activity_map,
                 activity_counts, min_num, remove_repeats, sequence_df>>
fit_vars == <<w2v_dict, activities_features, activity_cluster_df>>

(* ---------------------------- sequences -------------------------------- *)
Range(f) == { f[i] : i \in DOMAIN f }
Perms(n) == { p \in [1..n -> 1..n] : \A i, j \in 1..n : p[i] = p[j] => i = j }
(* The elements of s at the positions in the set keep, in order.           *)
RECURSIVE TakeFrom(_, _, _)
TakeFrom(s, keep, i) ==
    IF i > Len(s) THEN <<>>
    ELSE (IF i \in keep THEN <<s[i]>> ELSE <<>>) \o TakeFrom(s, keep, i + 1)
TakeWhere(s, keep) == TakeFrom(s, keep, 1)
Column(df, c) == [i \in 1..Len(df) |-> df[i][c]]

(* ------------------------ activities_class.py -------------------------- *)
(* if type(drop_activities) == str: drop_activities = [drop_activities]    *)
DropList(drop) == IF drop.kind = "str" THEN <<drop.val>> ELSE drop.val
PatternList(drop) == Join(DropList(drop), "|")

(* remove_activities: rows whose label matches the joined pattern go.      *)
KeepRow(row, drop) == ~ ReSearch(row.activity, PatternList(drop))
remove_activities(table, drop) ==
    TakeWhere(table, { i \in 1..Len(table) : KeepRow(table[i], drop) })
(* Variant: the emptiness assertion is missing. *)
RemoveActivitiesRaises_Never(table, drop) == FALSE
(* assert len(self) > 0 *)
RemoveActivitiesRaises(table, drop) == Len(remove_activities(table, drop)) = 0

(* Series.drop_duplicates(): the first occurrence of every value.          *)
drop_duplicates(s) ==
    TakeWhere(s, { i \in 1..Len(s) : \A j \in 1..(i-1) : s[j] # s[i] })

(* create_dicts: activity_map is {0: first label, 1: second label, ...},   *)
(* activity_counts is {label: number of distinct IDs}.                     *)
(* Variant: drop_duplicates() without reset_index(), keys are row labels. *)
CreateActivityMap_NoResetIndex(df) ==
    LET col == Column(df, "activity")
        firsts == { i \in 1..Len(col) : \A j \in 1..(i-1) : col[j] # col[i] }
    IN  [k \in { i - 1 : i \in firsts } |-> col[k + 1]]
CreateActivityMap(df) ==
    LET firsts == drop_duplicates(Column(df, "activity"))
    IN  [k \in 0..(Len(firsts) - 1) |-> firsts[k + 1]]
(* Variant: groupby('activity')['ID'].count() instead of nunique(). *)
CreateActivityCounts_RowCount(df) ==
    [l \in Range(Column(df, "activity")) |->
        Cardinality({ j \in 1..Len(df) : df[j].activity = l })]
CreateActivityCounts(df) ==
    [l \in Range(Column(df, "activity")) |->
        Cardinality({ df[i].ID : i \in { j \in 1..Len(df) : df[j].activity = l } })]

(* map_activities: invert the map and look every label up.                 *)
MapActivitiesRaises(df, amap) ==
    Cardinality(Range(Column(df, "activity"))) # Cardinality(DOMAIN amap)
dict_reversed(amap) ==
    [y \in Range(amap) |->
        CHOOSE x \in DOMAIN amap :
            amap[x] = y /\ \A z \in DOMAIN amap : amap[z] = y => z <= x]
(* Series.map(dict) gives NaN for a label that is no key of the reversed   *)
(* dictionary; a column holding a NaN is a float column, so its other      *)
(* cells are floats too.                                                   *)
NaN == [nan |-> TRUE]
Float(k) == [nan |-> FALSE, val |-> k]
AllLabelsMapped(df, amap) == \A i \in 1..Len(df) : df[i].activity \in Range(amap)
map_activities(df, amap) ==
    [i \in 1..Len(df) |->
        [ID |-> df[i].ID, activity |-> df[i].activity,
         occurrence |-> df[i].occurrence,
         activity_ID |->
            IF AllLabelsMapped(df, amap) THEN dict_reversed(amap)[df[i].activity]
            ELSE IF df[i].activity \in Range(amap)
                 THEN Float(dict_reversed(amap)[df[i].activity])
                 ELSE NaN]]

(* sequence: DataFrame.sort_values('occurrence') uses the default          *)
(* kind='quicksort', which is not stable: rows with equal occurrence may   *)
(* come out in any order.  SortOrders is the set of row orders the sort    *)
(* may produce; StableOrder is the one that keeps ties in table order.     *)
SortOrders(df) ==
    { p \in Perms(Len(df)) :
        \A i, j \in 1..Len(df) :
            i < j => df[p[i]].occurrence <= df[p[j]].occurrence }
sort_values(df, p) == [i \in 1..Len(df) |-> df[p[i]]]

(* self['activity_ID'].astype(str) *)
astype_str(df) ==
    [i \in 1..Len(df) |->
        [ID |-> df[i].ID, activity |-> df[i].activity,
         occurrence |-> df[i].occurrence,
         activity_ID |-> Str(df[i].activity_ID)]]

(* groupby('ID') yields the groups in ascending key order, the rows of a   *)
(* group in their order in the frame.                                      *)
RECURSIVE SortedKeys(_)
SortedKeys(S) ==
    IF S = {} THEN <<>>
    ELSE LET m == CHOOSE x \in S : \A y \in S : x <= y
         IN  <<m>> \o SortedKeys(S \ {m})
GroupTokens(df, id) ==
    Column(TakeWhere(df, { i \in 1..Len(df) : df[i].ID = id }), "activity_ID")

(* [x[0] for x in itertools.groupby(seq)] *)
RECURSIVE DropLeading(_, _)
DropLeading(seq, x) ==
    IF Len(seq) > 0 /\ seq[1] = x THEN DropLeading(Tail(seq), x) ELSE seq
(* Variant: every repeated token is dropped, adjacent or not. *)
groupby_keys_AllDuplicates(seq) == drop_duplicates(seq)
RECURSIVE groupby_keys(_)
groupby_keys(seq) ==
    IF Len(seq) = 0 THEN <<>>
    ELSE <<seq[1]>> \o groupby_keys(DropLeading(Tail(seq), seq[1]))

SeqList(df, id, rr) ==
    IF rr THEN groupby_keys(GroupTokens(df, id)) ELSE GroupTokens(df, id)
(* sequence_df[sequence_df['step_num'] >= min_num] *)
(* Variant: a strict comparison. *)
KeepSequence_Strict(step_num, m) == step_num > m
KeepSequence(step_num, m) == step_num >= m
SequenceRows(df, m, rr) ==
    LET keys == SortedKeys(Range(Column(df, "ID")))
        all  == [k \in 1..Len(keys) |->
                    [ID |-> keys[k],
                     seq_list |-> SeqList(df, keys[k], rr),
                     step_num |-> Len(SeqList(df, keys[k], rr)),
                     seq_str |-> Join(SeqList(df, keys[k], rr), " ")]]
    IN  TakeWhere(all, { k \in 1..Len(all) : KeepSequence(all[k].step_num, m) })

(* ------------------- create_corpus, one step per call ------------------ *)
Init ==
    /\ pc = "start"
    /\ raised = "none"
    /\ self \in Tables
    /\ drop_activities = None
    /\ activities_df = <<>>
    /\ activity_map = <<>>
    /\ activity_counts = <<>>
    /\ min_num = 0
    /\ remove_repeats = TRUE
    /\ sequence_df = <<>>
    /\ w2v_dict = <<>>
    /\ activities_features = <<>>
    /\ activity_cluster_df = <<>>

(* create_corpus lines 195-198: remove_activities, or a plain copy.        *)
RemoveActivities ==
    /\ pc = "start"
    /\ \E drop \in DropChoices :
        /\ drop_activities' = drop
        /\ IF drop = None
           THEN /\ activities_df' = self
                /\ pc' = "filtered"
                /\ raised' = raised
           ELSE IF RemoveActivitiesRaises(self, drop)
           THEN /\ activities_df' = activities_df
                /\ pc' = "error"
                /\ raised' = "AssertionError"
           ELSE /\ activities_df' = remove_activities(self, drop)
                /\ pc' = "filtered"
                /\ raised' = raised
    /\ UNCHANGED <<self, activity_map, activity_counts, min_num,
                   remove_repeats, sequence_df, fit_vars>>

CreateDicts ==
    /\ pc = "filtered"
    /\ activity_map' = CreateActivityMap(activities_df)
    /\ activity_counts' = CreateActivityCounts(activities_df)
    /\ pc' = "dicts"
    /\ UNCHANGED <<raised, self, drop_activities, activities_df, min_num,
                   remove_repeats, sequence_df, fit_vars>>

MapActivities ==
    /\ pc = "dicts"
    /\ IF MapActivitiesRaises(activities_df, activity_map)
       THEN /\ pc' = "error"
            /\ raised' = "AssertionError"
            /\ activities_df' = activities_df
       ELSE /\ pc' = "mapped"
            /\ raised' = raised
            /\ activities_df' = map_activities(activities_df, activity_map)
    /\ UNCHANGED <<self, drop_activities, activity_map, activity_counts,
                   min_num, remove_repeats, sequence_df, fit_vars>>

(* map_activities called with a dictionary of the caller's choosing.       *)
OtherLabel == <<"z">>
MapChoices ==
    UNION { [0..(n - 1) -> Labels \cup {OtherLabel}] : n \in 1..Cardinality(Labels) }
MapActivitiesWith ==
    /\ pc = "filtered"
    /\ \E amap \in MapChoices :
        /\ activity_map' = amap
        /\ IF MapActivitiesRaises(activities_df, amap)
           THEN /\ pc' = "error"
                /\ raised' = "AssertionError"
                /\ activities_df' = activities_df
           ELSE /\ pc' = "mapped"
                /\ raised' = raised
                /\ activities_df' = map_activities(activities_df, amap)
    /\ UNCHANGED <<self, drop_activities, activity_counts,
                   min_num, remove_repeats, sequence_df, fit_vars>>

Sequence ==
    /\ pc = "mapped"
    /\ \E m \in 0..MaxMinNum, rr \in BOOLEAN, p \in SortOrders(activities_df) :
        /\ min_num' = m
        /\ remove_repeats' = rr
        /\ activities_df' = astype_str(sort_values(activities_df, p))
        /\ sequence_df' = SequenceRows(activities_df', m, rr)
    /\ pc' = "sequenced"
    /\ UNCHANGED <<raised, self, drop_activities, activity_map,
                   activity_counts, fit_vars>>

(* ----------------------------- modeling.py ----------------------------- *)
(* skip_grams: the corpus is tokenized on white space; Word2Vec keeps the  *)
(* tokens that occur at least min_count times and refuses to train on an   *)
(* empty vocabulary.  A trained vector is opaque: WordVector(t) stands for *)
(* the vector the model holds for token t.                                 *)
(* Variant: the emptiness assertion is missing. *)
SkipGramsAssertFails_Never(seqs) == FALSE
SkipGramsAssertFails(seqs) == Len(seqs) = 0
TokenizedCorpus(seqs) == [k \in 1..Len(seqs) |-> Tokenize(seqs[k].seq_str)]
TokenCount(corpus, t) ==
    Cardinality(UNION { { <<k, i>> : i \in { j \in 1..Len(corpus[k]) : corpus[k][j] = t } } :
                          k \in 1..Len(corpus) })
Vocabulary(corpus, min_count) ==
    { t \in UNION { Range(corpus[k]) : k \in 1..Len(corpus) } :
        TokenCount(corpus, t) >= min_count }
WordVector(t) == [vector_of |-> t]
skip_grams(seqs, min_count) ==
    [t \in Vocabulary(TokenizedCorpus(seqs), min_count) |-> WordVector(t)]

(* merge_dicts: both dictionaries sorted by key and zipped by position;    *)
(* zip stops at the shorter one.  The result keeps insertion order.        *)
MergeAssertFails(amap, w2v) == Cardinality(DOMAIN amap) < Cardinality(DOMAIN w2v)
MergeValueError(w2v) == \E k \in DOMAIN w2v : ~ IsDigits(k)
MergedLength(amap, w2v) ==
    IF Cardinality(DOMAIN amap) <= Cardinality(DOMAIN w2v)
    THEN Cardinality(DOMAIN amap) ELSE Cardinality(DOMAIN w2v)
merge_dicts(amap, w2v) ==
    LET activity_map_sorted == SortedKeys(DOMAIN amap)
        int_keys == { int(k) : k \in DOMAIN w2v }
        w2v_int == [n \in int_keys |-> w2v[CHOOSE k \in DOMAIN w2v : int(k) = n]]
        w2v_dict_sorted == SortedKeys(int_keys)
    IN  [z \in 1..MergedLength(amap, w2v) |->
            [activity |-> amap[activity_map_sorted[z]],
             features |-> w2v_int[w2v_dict_sorted[z]]]]

(* dim_reduction: one row per entry, the feature columns and the two TSNE  *)
(* coordinates (opaque values of the projection).                          *)
TSNE(features, axis) == [i \in 1..Len(features) |-> [tsne |-> axis, of |-> features[i]]]
dim_reduction(af) ==
    [index |-> Column(af, "activity"),
     cols  |-> ("features" :> Column(af, "features"))
               @@ ("x" :> TSNE(Column(af, "features"), "x"))
               @@ ("y" :> TSNE(Column(af, "features"), "y"))]

(* add_volume: Index.map(activity_counts) leaves NaN for a label that is   *)
(* not a key; Series.rank(pct=True) * 100 gives the average rank among the *)
(* non-NaN values divided by their number, as the fraction num/den.        *)
IndexMap(index, counts) ==
    [i \in 1..Len(index) |->
        IF index[i] \in DOMAIN counts
        THEN [nan |-> FALSE, val |-> counts[index[i]]] ELSE NaN]
(* Variant: rank(ascending=False). *)
Rank_Descending(lower, ties, n) ==
    [nan |-> FALSE, num |-> 100 * (2 * (n - lower - ties) + ties + 1), den |-> 2 * n]
Rank(lower, ties, n) == [nan |-> FALSE, num |-> 100 * (2 * lower + ties + 1), den |-> 2 * n]
RankPct(col) ==
    LET valid == { i \in 1..Len(col) : ~ col[i].nan }
    IN  [i \in 1..Len(col) |->
            IF col[i].nan THEN NaN
            ELSE Rank(Cardinality({ j \in valid : col[j].val < col[i].val }),
                      Cardinality({ j \in valid : col[j].val = col[i].val }),
                      Cardinality(valid))]
AddVolumeAssertFails(df, counts) == Cardinality(DOMAIN counts) < Len(df.index)
add_volume(df, counts) ==
    [index |-> df.index,
     cols  |-> ("volume_pctl" :> RankPct(IndexMap(df.index, counts))) @@ df.cols]

(* dbscan_cluster: DBSCAN is a black box returning one integer label per   *)
(* row (-1 marks noise); the labels become the column 'cluster'.           *)
DimsChoices == { <<"x", "y">>, <<"x", "y", "volume_pctl">>, <<"x", "y", "sess_count">> }
ClusterLabelChoices == {-1, 0}
DbscanKeyError(df, dims) == \E d \in 1..Len(dims) : dims[d] \notin DOMAIN df.cols
DbscanValueError(df, dims) ==
    \E d \in 1..Len(dims) : \E i \in 1..Len(df.index) :
        dims[d] = "volume_pctl" /\ df.cols[dims[d]][i].nan
(* Variant: the rows DBSCAN marks as noise are dropped. *)
dbscan_cluster_DropNoise(df, labels) ==
    [index |-> TakeWhere(df.index, { i \in 1..Len(df.index) : labels[i] # -1 }),
     cols  |-> [c \in DOMAIN df.cols \cup {"cluster"} |->
                  TakeWhere(IF c = "cluster" THEN labels ELSE df.cols[c],
                            { i \in 1..Len(labels) : labels[i] # -1 })]]
dbscan_cluster(df, labels) ==
    [index |-> df.index, cols |-> ("cluster" :> labels) @@ df.cols]

SkipGrams ==
    /\ pc = "sequenced"
    /\ \E min_activity_count \in 0..MaxMinCount :
        IF SkipGramsAssertFails(sequence_df)
        THEN /\ pc' = "error"
             /\ raised' = "AssertionError"
             /\ w2v_dict' = w2v_dict
        ELSE IF skip_grams(sequence_df, min_activity_count) = <<>>
        THEN /\ pc' = "error"
             /\ raised' = "RuntimeError"
             /\ w2v_dict' = w2v_dict
        ELSE /\ pc' = "trained"
             /\ raised' = raised
             /\ w2v_dict' = skip_grams(sequence_df, min_activity_count)
    /\ UNCHANGED <<corpus_vars, activities_features, activity_cluster_df>>

MergeDicts ==
    /\ pc = "trained"
    /\ IF MergeAssertFails(activity_map, w2v_dict)
       THEN /\ pc' = "error"
            /\ raised' = "AssertionError"
            /\ activities_features' = activities_features
       ELSE IF MergeValueError(w2v_dict)
       THEN /\ pc' = "error"
            /\ raised' = "ValueError"
            /\ activities_features' = activities_features
       ELSE /\ pc' = "merged"
            /\ raised' = raised
            /\ activities_features' = merge_dicts(activity_map, w2v_dict)
    /\ UNCHANGED <<corpus_vars, w2v_dict, activity_cluster_df>>

DimReduction ==
    /\ pc = "merged"
    /\ activity_cluster_df' = dim_reduction(activities_features)
    /\ pc' = "reduced"
    /\ UNCHANGED <<raised, corpus_vars, w2v_dict, activities_features>>

AddVolume ==
    /\ pc = "reduced"
    /\ IF AddVolumeAssertFails(activity_cluster_df, activity_counts)
       THEN /\ pc' = "error"
            /\ raised' = "AssertionError"
            /\ activity_cluster_df' = activity_cluster_df
       ELSE /\ pc' = "volume"
            /\ raised' = raised
            /\ activity_cluster_df' = add_volume(activity_cluster_df, activity_counts)
    /\ UNCHANGED <<corpus_vars, w2v_dict, activities_features>>

DbscanCluster ==
    /\ pc = "volume"
    /\ \E cluster_dims \in DimsChoices :
        IF DbscanKeyError(activity_cluster_df, cluster_dims)
        THEN /\ pc' = "error"
             /\ raised' = "KeyError"
             /\ activity_cluster_df' = activity_cluster_df
        ELSE IF DbscanValueError(activity_cluster_df, cluster_dims)
        THEN /\ pc' = "error"
             /\ raised' = "ValueError"
             /\ activity_cluster_df' = activity_cluster_df
        ELSE /\ pc' = "clustered"
             /\ raised' = raised
             /\ \E labels \in [1..Len(activity_cluster_df.index) -> ClusterLabelChoices] :
                    activity_cluster_df' = dbscan_cluster(activity_cluster_df, labels)
    /\ UNCHANGED <<corpus_vars, w2v_dict, activities_features>>

NextCorpus == RemoveActivities \/ CreateDicts \/ MapActivities \/ Sequence

SpecCorpus == Init /\ [][NextCorpus]_vars

(* create_corpus followed by skip_grams.                                   *)
NextTrain == NextCorpus \/ SkipGrams

SpecTrain == Init /\ [][NextTrain]_vars

(* remove_activities, then map_activities with any dictionary.            *)
NextMap == RemoveActivities \/ MapActivitiesWith

SpecMap == Init /\ [][NextMap]_vars

(* The whole pipeline: create_corpus, fit_sequences, dbscan_cluster.       *)
Next ==
    \/ RemoveActivities \/ CreateDicts \/ MapActivities \/ Sequence
    \/ SkipGrams \/ MergeDicts \/ DimReduction \/ AddVolume \/ DbscanCluster

Spec == Init /\ [][Next]_vars

(* add_volume and dbscan_cluster on any table of activity rows and any     *)
(* activity_counts dictionary.                                             *)
MaxCount == 3
login == <<"l", "o", "g", "i", "n">>
browse == <<"b", "r", "o", "w", "s", "e">>
purchase == <<"p", "u", "r", "c", "h", "a", "s", "e">>
ClusterLabels == {login, browse, purchase}
FeatureTables ==
    { [i \in 1..Len(ix) |-> [activity |-> ix[i], features |-> WordVector(Str(i - 1))]] :
        ix \in { q \in UNION { [1..n -> ClusterLabels] : n \in 1..3 } :
                    \A i, j \in DOMAIN q : q[i] = q[j] => i = j } }
CountDicts == UNION { [D -> 1..MaxCount] : D \in SUBSET ClusterLabels }

InitCluster ==
    /\ pc = "reduced"
    /\ raised = "none"
    /\ self = <<>>
    /\ drop_activities = None
    /\ activities_df = <<>>
    /\ activity_map = <<>>
    /\ activity_counts \in CountDicts
    /\ min_num = 0
    /\ remove_repeats = TRUE
    /\ sequence_df = <<>>
    /\ w2v_dict = <<>>
    /\ activities_features \in FeatureTables
    /\ activity_cluster_df = dim_reduction(activities_features)

NextCluster == AddVolume \/ DbscanCluster

SpecCluster == InitCluster /\ [][NextCluster]_vars

(* ======================= properties of create_corpus =================== *)
RowsOf(df) == 1..Len(df)
SessionIDs(df) == Range(Column(df, "ID"))
(* The tokens of one session, in frame order. *)
SessionTokens(df, id) ==
    LET rows == TakeWhere(df, { i \in 1..Len(df) : df[i].ID = id })
    IN  [i \in 1..Len(rows) |-> rows[i].activity_ID]
(* A list with every element that equals its predecessor deleted. *)
RunStarts(seq) == TakeWhere(seq, { i \in 1..Len(seq) : i = 1 \/ seq[i] # seq[i - 1] })
NoAdjacentRepeat(seq) == \A i \in 1..(Len(seq) - 1) : seq[i] # seq[i + 1]
(* The table that create_dicts, map_activities and sequence work on. *)
FilteredInput ==
    IF drop_activities = None THEN self ELSE remove_activities(self, drop_activities)
(* Literal, case-sensitive substring test.  *)
Contains(s, pat) ==
    \E i \in 1..(Len(s) - Len(pat) + 1) :
        \A j \in 1..Len(pat) : s[i + j - 1] = pat[j]

ContainsSome(label, drop) ==
    \E k \in 1..Len(DropList(drop)) : Contains(label, DropList(drop)[k])
MatchesSome(label, drop) ==
    \E k \in 1..Len(DropList(drop)) :
        Contains(label, DropList(drop)[k]) \/ ReSearch(label, DropList(drop)[k])

(* C1: when remove_activities succeeds, the returned table holds exactly   *)
(* the records whose label contains none of the patterns as a literal      *)
(* substring, in their original order.                                     *)
C1_RemovesExactlyLiteralMatches ==
    (pc = "filtered" /\ drop_activities # None) =>
        activities_df =
            TakeWhere(self, { i \in 1..Len(self) :
                                ~ ContainsSome(self[i].activity, drop_activities) })

(* C2: activity_map is a bijection between 0..n-1 and the n distinct       *)
(* labels of the table, numbered in first-seen row order, and after        *)
(* map_activities every row's activity_ID decodes to the row's label.      *)
FirstRow(df, l) ==
    CHOOSE i \in RowsOf(df) :
        df[i].activity = l /\ \A j \in 1..(i-1) : df[j].activity # l
C2_ActivityMapBijective ==
    (pc \in {"dicts", "mapped"}) =>
        LET labels == Range(Column(activities_df, "activity"))
        IN  /\ DOMAIN activity_map = 0..(Cardinality(labels) - 1)
            /\ Range(activity_map) = labels
            /\ \A i, j \in DOMAIN activity_map :
                   i < j => FirstRow(activities_df, activity_map[i])
                              < FirstRow(activities_df, activity_map[j])
            /\ pc = "mapped" =>
                   \A r \in RowsOf(activities_df) :
                       /\ activities_df[r].activity_ID \in DOMAIN activity_map
                       /\ activity_map[activities_df[r].activity_ID]
                              = activities_df[r].activity
C2_Witness ==
    /\ pc = "mapped"
    /\ Len(activities_df) = 3
    /\ Cardinality(DOMAIN activity_map) = 2
    /\ activities_df[1].activity = activities_df[3].activity

(* C3: every output token list follows ascending occurrence, and records   *)
(* of one session with equal occurrence keep their original table order.   *)
TokenOf(label) == Str(CHOOSE k \in DOMAIN activity_map : activity_map[k] = label)
StableOrder(df) ==
    CHOOSE p \in SortOrders(df) :
        \A i, j \in 1..Len(df) :
            (i < j /\ df[p[i]].occurrence = df[p[j]].occurrence) => p[i] < p[j]
StableTokens(id) ==
    LET sorted == sort_values(FilteredInput, StableOrder(FilteredInput))
        rows == TakeWhere(sorted, { i \in 1..Len(sorted) : sorted[i].ID = id })
    IN  [i \in 1..Len(rows) |-> TokenOf(rows[i].activity)]
C3_OccurrenceOrderStableTies ==
    (pc = "sequenced") =>
        \A k \in RowsOf(sequence_df) :
            sequence_df[k].seq_list =
                IF remove_repeats THEN RunStarts(StableTokens(sequence_df[k].ID))
                ELSE StableTokens(sequence_df[k].ID)

(* C4: with remove_repeats=True every output token list is the session's   *)
(* occurrence-ordered token list with each maximal run of equal adjacent   *)
(* tokens replaced by one token; collapsing it again changes nothing.      *)
OccurrenceOrdered(df) ==
    \A i, j \in RowsOf(df) : i < j => df[i].occurrence <= df[j].occurrence
C4_CollapseAdjacentRepeats ==
    (pc = "sequenced" /\ remove_repeats) =>
        /\ OccurrenceOrdered(activities_df)
        /\ \A k \in RowsOf(sequence_df) :
            LET out == sequence_df[k].seq_list
            IN  /\ out = RunStarts(SessionTokens(activities_df, sequence_df[k].ID))
                /\ NoAdjacentRepeat(out)
                /\ groupby_keys(out) = out
C4_Witness ==
    /\ pc = "sequenced" /\ remove_repeats
    /\ \E k \in RowsOf(sequence_df) :
        /\ sequence_df[k].step_num = 2
        /\ Len(SessionTokens(activities_df, sequence_df[k].ID)) = 3

(* C5: a session is in the output of sequence exactly when its step count, *)
(* taken after collapsing when remove_repeats=True, is at least min_num.   *)
StepCount(id) ==
    IF remove_repeats THEN Len(RunStarts(SessionTokens(activities_df, id)))
    ELSE Len(SessionTokens(activities_df, id))
C5_MinNumFilter ==
    (pc = "sequenced") =>
        /\ \A id \in SessionIDs(activities_df) :
               (\E k \in RowsOf(sequence_df) : sequence_df[k].ID = id)
                   <=> StepCount(id) >= min_num
        /\ \A k \in RowsOf(sequence_df) :
               /\ sequence_df[k].ID \in SessionIDs(activities_df)
               /\ sequence_df[k].step_num = StepCount(sequence_df[k].ID)
C5_Witness ==
    /\ pc = "sequenced" /\ min_num = 2
    /\ Len(sequence_df) = 1 /\ sequence_df[1].step_num = 2
    /\ Cardinality(SessionIDs(activities_df)) = 2

(* C10: when every record matches some drop pattern, remove_activities     *)
(* fails, no empty table is returned and no later stage runs.              *)
C10_AllMatchedFails ==
    /\ (pc # "start" /\ drop_activities # None
          /\ \A r \in RowsOf(self) : MatchesSome(self[r].activity, drop_activities)) =>
            /\ pc = "error" /\ raised = "AssertionError"
            /\ activities_df = <<>> /\ activity_map = <<>>
            /\ activity_counts = <<>> /\ sequence_df = <<>>
    /\ (pc \notin {"start", "error"}) => Len(activities_df) > 0
C10_Witness ==
    /\ pc = "error" /\ raised = "AssertionError"
    /\ drop_activities # None
    /\ Len(self) = 3
    /\ self[1].activity # self[2].activity

(* C13: when every session falls below min_num, sequence returns an empty  *)
(* sequence table without raising, and skip_grams on that table fails at   *)
(* its own assertion, before the embedding model is trained.               *)
C13_EmptyCorpusFailsBeforeTraining ==
    [][/\ (pc = "mapped" /\ pc' = "sequenced"
            /\ \A id \in SessionIDs(activities_df) : StepCount(id)' < min_num')
          => (sequence_df' = <<>> /\ raised' = "none")
       /\ (pc = "sequenced" /\ sequence_df = <<>>)
          => (pc' = "error" /\ raised' = "AssertionError" /\ w2v_dict' = w2v_dict)
      ]_vars
C13_Witness ==
    /\ pc = "error" /\ raised = "AssertionError"
    /\ activity_map # <<>> /\ sequence_df = <<>>
    /\ min_num = 2 /\ Len(self) = 2

(* C14: sequence fails whenever min_num is not a positive integer; it      *)
(* never returns a sequence table for such a min_num.                      *)
C14_NonPositiveMinNumFails == (pc = "sequenced") => min_num >= 1

(* C15: the dictionaries create_corpus returns are those of the filtered   *)
(* table (activity_counts[label] = number of distinct session IDs with     *)
(* that label), sequencing changes neither of them, and the table          *)
(* create_corpus was called on is never modified.                          *)
DictsOfTable(table, amap, counts) ==
    LET labels == { table[i].activity : i \in RowsOf(table) }
    IN  /\ DOMAIN counts = labels
        /\ \A l \in labels :
               counts[l] = Cardinality({ id \in IDs :
                               \E i \in RowsOf(table) :
                                   table[i].ID = id /\ table[i].activity = l })
        /\ Range(amap) = labels
        /\ Cardinality(DOMAIN amap) = Cardinality(labels)
C15_DictionariesCarriedUnchanged ==
    [][/\ self' = self
       /\ (pc = "start" /\ pc' = "filtered") => activities_df' = FilteredInput'
       /\ (pc = "filtered" /\ pc' = "dicts")
          => DictsOfTable(activities_df, activity_map', activity_counts')
       /\ (pc \in {"dicts", "mapped"})
          => (activity_map' = activity_map /\ activity_counts' = activity_counts)
      ]_vars
C15_Witness ==
    /\ pc = "sequenced" /\ drop_activities # None
    /\ Len(sequence_df) < Cardinality(SessionIDs(activities_df))
    /\ \E l \in DOMAIN activity_counts :
           activity_counts[l]
               < Cardinality({ i \in RowsOf(activities_df) : activities_df[i].activity = l })

(* C11: for every dictionary passed as activity_map, map_activities either *)
(* fails or leaves every row with an activity_ID that is a key of          *)
(* activity_map whose value is the row's label; no row is left with a      *)
(* missing activity_ID.                                                    *)
C11_MapFailsOrMapsEveryRow ==
    (pc = "mapped") =>
        /\ AllLabelsMapped(activities_df, activity_map)
        /\ \A r \in RowsOf(activities_df) :
               /\ activities_df[r].activity_ID \in DOMAIN activity_map
               /\ activity_map[activities_df[r].activity_ID] = activities_df[r].activity

(* ================== properties of the fit and cluster stages =========== *)
ClusterRows == 1..Len(activity_cluster_df.index)
VolumePctl(i) == activity_cluster_df.cols["volume_pctl"][i]
Covers(counts, df) == \A i \in 1..Len(df.index) : df.index[i] \in DOMAIN counts
RowOf(label) == CHOOSE i \in ClusterRows : activity_cluster_df.index[i] = label

(* C6: when activity_counts covers the labels, every volume_pctl lies in   *)
(* [0,100], a larger count never gets a smaller volume_pctl, and for the   *)
(* counts login=2, browse=2, purchase=1 purchase ranks strictly below      *)
(* login.                                                                  *)
Scenario ==
    /\ Range(activity_cluster_df.index) = {login, browse, purchase}
    /\ activity_counts = (login :> 2) @@ (browse :> 2) @@ (purchase :> 1)
C6_VolumePercentile ==
    (pc \in {"volume", "clustered"} /\ Covers(activity_counts, activity_cluster_df)) =>
        /\ \A i \in ClusterRows :
               /\ ~ VolumePctl(i).nan
               /\ VolumePctl(i).den > 0
               /\ 0 <= VolumePctl(i).num
               /\ VolumePctl(i).num <= 100 * VolumePctl(i).den
        /\ \A a, b \in ClusterRows :
               activity_counts[activity_cluster_df.index[a]]
                   > activity_counts[activity_cluster_df.index[b]]
               => VolumePctl(a).num * VolumePctl(b).den
                      >= VolumePctl(b).num * VolumePctl(a).den
        /\ Scenario =>
               VolumePctl(RowOf(purchase)).num * VolumePctl(RowOf(login)).den
                   < VolumePctl(RowOf(login)).num * VolumePctl(RowOf(purchase)).den
C6_Witness == pc = "volume" /\ Scenario

(* C12: add_volume fails whenever some row label is not a key of           *)
(* activity_counts; it never returns a table with a missing volume_pctl.   *)
C12_AddVolumeFailsWhenUncovered ==
    (pc # "reduced" /\ "volume_pctl" \in DOMAIN activity_cluster_df.cols) =>
        /\ Covers(activity_counts, activity_cluster_df)
        /\ \A i \in ClusterRows : ~ VolumePctl(i).nan

(* C7: whenever merge_dicts returns, the integer keys of the embedding     *)
(* table are exactly the keys of activity_map and every label              *)
(* activity_map[i] is paired with the vector held for key str(i).          *)
C7_MergePairsByID ==
    (pc = "merged") =>
        /\ { int(k) : k \in DOMAIN w2v_dict } = DOMAIN activity_map
        /\ \A z \in 1..Len(activities_features) :
               \E i \in DOMAIN activity_map :
                   /\ activity_map[i] = activities_features[z].activity
                   /\ Str(i) \in DOMAIN w2v_dict
                   /\ activities_features[z].features = w2v_dict[Str(i)]

C9_ClusterOnlyLabels ==
    [][(pc = "volume" /\ pc' = "clustered") =>
          /\ activity_cluster_df'.index = activity_cluster_df.index
          /\ DOMAIN activity_cluster_df'.cols
                 = DOMAIN activity_cluster_df.cols \cup {"cluster"}
          /\ \A c \in DOMAIN activity_cluster_df.cols :
                 activity_cluster_df'.cols[c] = activity_cluster_df.cols[c]
          /\ DOMAIN activity_cluster_df'.cols["cluster"]
                 = 1..Len(activity_cluster_df.index)
          /\ \A i \in 1..Len(activity_cluster_df.index) :
                 activity_cluster_df'.cols["cluster"][i] \in Int]_vars
C9_Witness ==
    /\ pc = "clustered"
    /\ Len(activity_cluster_df.index) = 3
    /\ activity_cluster_df.cols["cluster"][1] = -1
    /\ activity_cluster_df.cols["cluster"][2] = 0

====
